---- MODULE Spec2Model ----
(***************************************************************************)
(* Model of redcap/request.py: class RCRequest.                            *)
(*                                                                         *)
(* One RCRequest object is followed from construction (__init__, which     *)
(* calls validate_pl when qtype is truthy) through calls of validate_pl    *)
(* and execute.  The payload is the caller's dict, held by reference       *)
(* (self.payload = payload), so the caller can still change it.            *)
(***************************************************************************)
EXTENDS Integers, Sequences, FiniteSets, TLC

VARIABLES pc, epc, type, payload, fmt, ret, r, sent, nchanges

vars == <<pc, epc, type, payload, fmt, ret, r, sent, nchanges>>

(***************************************************************************)
(* Bounds of the model.                                                    *)
(***************************************************************************)
\* longest response body, in characters
MaxBody == 2
\* most changes the caller makes to the payload dict of one Request
MaxChanges == 1

(***************************************************************************)
(* The rule table of validate_pl (request.py lines 52-89).                 *)
(***************************************************************************)
RuleTypes == {"exp_record", "imp_record", "metadata", "exp_file", "imp_file",
              "exp_event", "exp_arm", "exp_fem", "exp_user"}

extra(t) ==
    CASE t = "exp_record" -> {"type", "format"}
      [] t = "imp_record" -> {"type", "overwriteBehavior", "data", "format"}
      [] t = "metadata"   -> {"format"}
      [] t = "exp_file"   -> {"action", "record", "field"}
      [] t = "imp_file"   -> {"action", "record", "field"}
      [] t = "exp_event"  -> {"format"}
      [] t = "exp_arm"    -> {"format"}
      [] t = "exp_fem"    -> {"format"}
      [] t = "exp_user"   -> {"format"}

req_content(t) ==
    CASE t = "exp_record" -> "record"
      [] t = "imp_record" -> "record"
      [] t = "metadata"   -> "metadata"
      [] t = "exp_file"   -> "file"
      [] t = "imp_file"   -> "file"
      [] t = "exp_event"  -> "event"
      [] t = "exp_arm"    -> "arm"
      [] t = "exp_fem"    -> "formEventMapping"
      [] t = "exp_user"   -> "user"

err_msg(t) ==
    CASE t = "exp_record" -> "Exporting record but content is not record"
      [] t = "imp_record" -> "Importing record but content is not record"
      [] t = "metadata"   -> "Requesting metadata but content != metadata"
      [] t = "exp_file"   -> "Exporting file but content is not file"
      [] t = "imp_file"   -> "Importing file but content is not file"
      [] t = "exp_event"  -> "Exporting events but content is not event"
      [] t = "exp_arm"    -> "Exporting arms but content is not arm"
      [] t = "exp_fem"    -> "Exporting form-event mappings but content is not formEventMapping"
      [] t = "exp_user"   -> "Exporting users but content is not user"

(***************************************************************************)
(* Inputs: operation types and payload dicts.                              *)
(***************************************************************************)
\* "" is the falsy qtype (None behaves the same at line 43); "bogus" is a
\* truthy qtype that no branch of validate_pl recognises.
EmptyType == ""
UnknownTypes == {"bogus"}
QTypes == RuleTypes \cup {EmptyType} \cup UnknownTypes

\* keys whose value no code path reads: only their presence matters
PresenceKeys == {"token", "type", "overwriteBehavior", "data",
                 "action", "record", "field"}
Keys == PresenceKeys \cup {"content", "format", "returnFormat"}

Absent == "<absent>"
ContentValues == {req_content(t) : t \in RuleTypes}
FormatValues == {"json", "csv", "xml"}

\* the dict with the presence keys K and the given content / format /
\* returnFormat entries (Absent: no such key)
MkPayload(K, c, f, rf) ==
    [k \in K \cup (IF c = Absent THEN {} ELSE {"content"})
             \cup (IF f = Absent THEN {} ELSE {"format"})
             \cup (IF rf = Absent THEN {} ELSE {"returnFormat"})
       |-> CASE k = "content"      -> c
             [] k = "format"       -> f
             [] k = "returnFormat" -> rf
             [] OTHER              -> "x"]

NoPayload == MkPayload({}, Absent, Absent, Absent)

(***************************************************************************)
(* Outcomes of a call: a returned value or a raised exception.             *)
(***************************************************************************)
PyNone == [t |-> "None", v |-> <<>>]
NoHeaders == [h \in {} |-> ""]

NoRet == [kind |-> "none", exc |-> "", msg |-> "", keys |-> {}, status |-> 0,
          content |-> PyNone, headers |-> NoHeaders]

Return(content, headers) ==
    [kind |-> "return", exc |-> "", msg |-> "", keys |-> {}, status |-> 0,
     content |-> content, headers |-> headers]

\* keys: the names a "Required keys: ..." message lists (joined from a set,
\* so their order in the text is not fixed); status: the status code of the
\* response an HTTPError carries
Raise(exc, msg, keys, status) ==
    [kind |-> "raise", exc |-> exc, msg |-> msg, keys |-> keys, status |-> status,
     content |-> PyNone, headers |-> NoHeaders]

(***************************************************************************)
(* RCRequest.validate_pl (lines 48-103), as a function of self.type and    *)
(* self.payload.                                                           *)
(***************************************************************************)
\* validate_pl without line 90 (required.extend(extra))
validate_pl_no_extra(t, pl) ==
    IF t \notin RuleTypes
    THEN Raise("UnboundLocalError", "extra", {}, 0)
    ELSE LET required == {"token", "content"}
             pl_keys  == DOMAIN pl
             not_pre  == required \ pl_keys
         IN  IF ~(required \subseteq pl_keys)
             THEN Raise("RCAPIError", "Required keys: %s", not_pre, 0)
             ELSE IF pl["content"] # req_content(t)
                  THEN Raise("RCAPIError", err_msg(t), {}, 0)
                  ELSE Return(PyNone, NoHeaders)

\* validate_pl with the content check (lines 99-103) ahead of the
\* required-keys check (lines 94-97)
validate_pl_content_first(t, pl) ==
    IF t \notin RuleTypes
    THEN Raise("UnboundLocalError", "extra", {}, 0)
    ELSE LET required == {"token", "content"} \cup extra(t)
             pl_keys  == DOMAIN pl
             not_pre  == required \ pl_keys
         IN  IF "content" \in pl_keys /\ pl["content"] # req_content(t)
             THEN Raise("RCAPIError", err_msg(t), {}, 0)
             ELSE IF ~(required \subseteq pl_keys)
                  THEN Raise("RCAPIError", "Required keys: %s", not_pre, 0)
                  ELSE Return(PyNone, NoHeaders)

\* validate_pl with extra, req_content and err_msg bound to empty defaults
\* before the branches, so that an unrecognised type passes
validate_pl_unknown_passes(t, pl) ==
    IF t \notin RuleTypes
    THEN Return(PyNone, NoHeaders)
    ELSE LET required == {"token", "content"} \cup extra(t)
             pl_keys  == DOMAIN pl
             not_pre  == required \ pl_keys
         IN  IF ~(required \subseteq pl_keys)
             THEN Raise("RCAPIError", "Required keys: %s", not_pre, 0)
             ELSE IF pl["content"] # req_content(t)
                  THEN Raise("RCAPIError", err_msg(t), {}, 0)
                  ELSE Return(PyNone, NoHeaders)


validate_pl(t, pl) ==
    IF t \notin RuleTypes
    THEN \* no branch of lines 53-89 binds extra: line 90 reads an unbound local
         Raise("UnboundLocalError", "extra", {}, 0)
    ELSE LET required == {"token", "content"} \cup extra(t)
             pl_keys  == DOMAIN pl
             not_pre  == required \ pl_keys
         IN  IF ~(required \subseteq pl_keys)
             THEN Raise("RCAPIError", "Required keys: %s", not_pre, 0)
             ELSE IF "content" \notin pl_keys
                  THEN Raise("RCAPIError", "content not in payload", {}, 0)
                  ELSE IF pl["content"] # req_content(t)
                       THEN Raise("RCAPIError", err_msg(t), {}, 0)
                       ELSE Return(PyNone, NoHeaders)

(***************************************************************************)
(* RCRequest.__init__ (lines 40-46): the outcome of the constructor and    *)
(* the fields it has assigned by then.                                     *)
(***************************************************************************)
Unset == "<unset>"

\* __init__ reading the format with a default: payload.get(fmt_key, 'json')
RCRequest_init_default_fmt(pl, qtype) ==
    LET v       == IF qtype # EmptyType THEN validate_pl(qtype, pl)
                                        ELSE Return(PyNone, NoHeaders)
        fmt_key == IF "returnFormat" \in DOMAIN pl THEN "returnFormat" ELSE "format"
    IN  IF v.kind = "raise"
        THEN [ret |-> v, fmt |-> Unset]
        ELSE [ret |-> Return(PyNone, NoHeaders),
              fmt |-> IF fmt_key \in DOMAIN pl THEN pl[fmt_key] ELSE "json"]

\* __init__ without the test of line 43: validate_pl is always called
RCRequest_init_always_validates(pl, qtype) ==
    LET v       == validate_pl(qtype, pl)
        fmt_key == IF "returnFormat" \in DOMAIN pl THEN "returnFormat" ELSE "format"
    IN  IF v.kind = "raise"
        THEN [ret |-> v, fmt |-> Unset]
        ELSE IF fmt_key \notin DOMAIN pl
             THEN [ret |-> Raise("KeyError", fmt_key, {}, 0), fmt |-> Unset]
             ELSE [ret |-> Return(PyNone, NoHeaders), fmt |-> pl[fmt_key]]

\* __init__ without lines 43-44: validate_pl is never called
RCRequest_init_never_validates(pl, qtype) ==
    LET fmt_key == IF "returnFormat" \in DOMAIN pl THEN "returnFormat" ELSE "format"
    IN  IF fmt_key \notin DOMAIN pl
        THEN [ret |-> Raise("KeyError", fmt_key, {}, 0), fmt |-> Unset]
        ELSE [ret |-> Return(PyNone, NoHeaders), fmt |-> pl[fmt_key]]

\* __init__ with the two keys of line 45 exchanged: format is preferred
RCRequest_init_format_first(pl, qtype) ==
    LET v       == IF qtype # EmptyType THEN validate_pl(qtype, pl)
                                        ELSE Return(PyNone, NoHeaders)
        fmt_key == IF "format" \in DOMAIN pl THEN "format" ELSE "returnFormat"
    IN  IF v.kind = "raise"
        THEN [ret |-> v, fmt |-> Unset]
        ELSE IF fmt_key \notin DOMAIN pl
             THEN [ret |-> Raise("KeyError", fmt_key, {}, 0), fmt |-> Unset]
             ELSE [ret |-> Return(PyNone, NoHeaders), fmt |-> pl[fmt_key]]


RCRequest_init(pl, qtype) ==
    LET v       == IF qtype # EmptyType THEN validate_pl(qtype, pl)
                                        ELSE Return(PyNone, NoHeaders)
        fmt_key == IF "returnFormat" \in DOMAIN pl THEN "returnFormat" ELSE "format"
    IN  IF v.kind = "raise"
        THEN [ret |-> v, fmt |-> Unset]
        ELSE IF fmt_key \notin DOMAIN pl
             THEN [ret |-> Raise("KeyError", fmt_key, {}, 0), fmt |-> Unset]
             ELSE [ret |-> Return(PyNone, NoHeaders), fmt |-> pl[fmt_key]]

(***************************************************************************)
(* json.loads(text, strict=False) (line 124) on the texts the model sends: *)
(* sequences over Alphabet.  Ctrl is the character U+0001, which is not    *)
(* JSON whitespace; a strict decoder rejects it inside a string.           *)
(***************************************************************************)
Quote == "\""
Ctrl == "^A"
Alphabet == {"1", "[", "]", Quote, Ctrl}

Bodies == UNION {[1..n -> Alphabet] : n \in 0..MaxBody}

PyInt(n) == [t |-> "int", v |-> n]
PyStr(s) == [t |-> "str", v |-> s]
PyBytes(s) == [t |-> "bytes", v |-> s]
PyList(s) == [t |-> "list", v |-> s]
PyDict == [t |-> "dict", v |-> <<>>]

Scanned(val, end) == [ok |-> TRUE, val |-> val, end |-> end]
ScanFail == [ok |-> FALSE, val |-> PyNone, end |-> 0]

\* the run of digits that starts at s[i]: the index after it
RECURSIVE DigitsEnd(_, _)
DigitsEnd(s, i) ==
    IF i <= Len(s) /\ s[i] = "1" THEN DigitsEnd(s, i + 1) ELSE i

\* int() of the digits s[i..j-1], all of them "1"
RECURSIVE DigitsValue(_, _, _)
DigitsValue(s, i, j) ==
    IF i >= j THEN 0 ELSE 10 * DigitsValue(s, i, j - 1) + 1

\* the string whose opening quote is s[i-1]: scans to the closing quote
RECURSIVE py_scanstring(_, _, _, _)
py_scanstring(s, begin, i, strict) ==
    IF i > Len(s) THEN ScanFail
    ELSE IF s[i] = Quote THEN Scanned(PyStr(SubSeq(s, begin, i - 1)), i + 1)
    ELSE IF s[i] = Ctrl /\ strict THEN ScanFail
    ELSE py_scanstring(s, begin, i + 1, strict)

\* one JSON value starting at s[i]
RECURSIVE scan_once(_, _, _)
scan_once(s, i, strict) ==
    IF i > Len(s) THEN ScanFail
    ELSE IF s[i] = "1"
         THEN LET j == DigitsEnd(s, i) IN Scanned(PyInt(DigitsValue(s, i, j)), j)
    ELSE IF s[i] = Quote
         THEN py_scanstring(s, i + 1, i + 1, strict)
    ELSE IF s[i] = "["
         THEN IF i + 1 <= Len(s) /\ s[i + 1] = "]"
              THEN Scanned(PyList(<<>>), i + 2)
              ELSE LET e == scan_once(s, i + 1, strict)
                   IN  IF e.ok /\ e.end <= Len(s) /\ s[e.end] = "]"
                       THEN Scanned(PyList(<<e.val>>), e.end + 1)
                       ELSE ScanFail
    ELSE ScanFail

\* ok = FALSE stands for the ValueError (JSONDecodeError) json.loads raises
loads(s, strict) ==
    LET e == scan_once(s, 1, strict)
    IN  IF e.ok /\ e.end = Len(s) + 1 THEN e ELSE ScanFail

(***************************************************************************)
(* The HTTP response object of requests.post (line 118).                   *)
(***************************************************************************)
StatusCodes == {101, 200, 204, 304, 404, 503}

\* the answers that carry no body: the HTTP client drops the body of a 1xx,
\* 204 or 304 answer, so r.content is empty for them
Bodyless(status_code) ==
    status_code \in 100..199 \/ status_code = 204 \/ status_code = 304

\* every answer of the model declares its content type, so that r.encoding
\* comes from the header (without one requests guesses the encoding from the
\* bytes)
HeaderMaps == {[h \in {"Content-Type"} |-> "text/plain"],
               [h \in {"Content-Type"} |-> "text/csv; charset=utf-8"]}

Response(status_code, body, headers) ==
    [status_code |-> status_code, body |-> body, headers |-> headers]

NoResponse == Response(0, <<>>, NoHeaders)
Responses ==
    {Response(c, b, h) : c \in {x \in StatusCodes : ~Bodyless(x)}, b \in Bodies,
                         h \in HeaderMaps}
    \cup {Response(c, <<>>, h) : c \in {x \in StatusCodes : Bodyless(x)},
                                 h \in HeaderMaps}

\* r.text and r.content: the body as text and as bytes
\* r.encoding: the charset the Content-Type header names, else the default
\* of a text/* type
encoding(resp) ==
    IF resp.headers["Content-Type"] = "text/csv; charset=utf-8"
    THEN "utf-8" ELSE "ISO-8859-1"

\* bytes.decode: the bytes of Alphabet are all below 0x80, and both
\* encodings decode such a byte to the character of the same code
decode(body, enc) ==
    [i \in 1..Len(body) |->
        CASE enc = "utf-8"      -> body[i]
          [] enc = "ISO-8859-1" -> body[i]]

text(resp) == PyStr(decode(resp.body, encoding(resp)))
content(resp) == PyBytes(resp.body)

\* requests' Response.raise_for_status: an HTTPError for 4xx and 5xx only
raise_for_status(resp) ==
    IF 400 <= resp.status_code /\ resp.status_code < 600
    THEN Raise("HTTPError", "Error", {}, resp.status_code)
    ELSE Return(PyNone, NoHeaders)

(***************************************************************************)
(* RCRequest.execute (lines 117-142), from self.type, self.fmt and the     *)
(* response received: what the call returns or raises.                     *)
(***************************************************************************)
\* execute without the test of line 126: a parse failure yields {} for
\* every type
execute_swallows_all(t, f, resp) ==
    IF t # "exp_file"
    THEN IF f = "json"
         THEN LET e == loads(text(resp).v, FALSE)
              IN  IF e.ok THEN Return(e.val, resp.headers)
                  ELSE Return(PyDict, resp.headers)
         ELSE Return(text(resp), resp.headers)
    ELSE LET s == raise_for_status(resp)
         IN  IF s.kind = "raise" THEN s
             ELSE Return(content(resp), resp.headers)

\* execute with r.raise_for_status() moved ahead of the branch of line 120
execute_status_first(t, f, resp) ==
    LET s == raise_for_status(resp)
    IN  IF s.kind = "raise" THEN s
        ELSE IF t # "exp_file"
             THEN IF f = "json"
                  THEN LET e == loads(text(resp).v, FALSE)
                       IN  IF e.ok THEN Return(e.val, resp.headers)
                           ELSE IF t = "imp_file" THEN Return(PyDict, resp.headers)
                                ELSE Raise("ValueError", "JSONDecodeError", {}, 0)
                  ELSE Return(text(resp), resp.headers)
             ELSE Return(content(resp), resp.headers)


execute(t, f, resp) ==
    IF t # "exp_file"
    THEN IF f = "json"
         THEN LET e == loads(text(resp).v, FALSE)
              IN  IF e.ok THEN Return(e.val, resp.headers)
                  ELSE IF t = "imp_file" THEN Return(PyDict, resp.headers)
                       ELSE Raise("ValueError", "JSONDecodeError", {}, 0)
         ELSE Return(text(resp), resp.headers)
    ELSE LET s == raise_for_status(resp)
         IN  IF s.kind = "raise" THEN s
             ELSE Return(content(resp), resp.headers)

(***************************************************************************)
(* State.                                                                  *)
(*   pc       "new": no Request yet; "constructed": __init__ returned;     *)
(*            "failed": __init__ raised                                    *)
(*   epc      where the call of execute is: "idle": no call under way;     *)
(*            "waiting": inside requests.post (line 118), request written, *)
(*            answer not yet there.  One call of execute at a time.        *)
(*   type, payload, fmt   the fields self.type, self.payload, self.fmt     *)
(*   ret      what the last call returned or raised                        *)
(*   r        the response the last execute received                       *)
(*   sent     the data the last execute handed to requests.post            *)
(*   nchanges the changes the caller has made to the payload dict          *)
(***************************************************************************)
NotSent == [posted |-> FALSE, data |-> NoPayload]
Posted(pl) == [posted |-> TRUE, data |-> pl]

Init ==
    /\ pc = "new"
    /\ epc = "idle"
    /\ type = Unset
    /\ payload = NoPayload
    /\ fmt = Unset
    /\ ret = NoRet
    /\ r = NoResponse
    /\ sent = NotSent
    /\ nchanges = 0

\* RCRequest(url, pl, qtype)
Construct(pl, qtype) ==
    /\ pc = "new"
    /\ LET o == RCRequest_init(pl, qtype)
       IN  /\ pc' = IF o.ret.kind = "raise" THEN "failed" ELSE "constructed"
           /\ fmt' = o.fmt
           /\ ret' = o.ret
    /\ type' = qtype
    /\ payload' = pl
    /\ UNCHANGED <<epc, r, sent, nchanges>>

\* a call of validate_pl() on the constructed Request
Validate ==
    /\ pc = "constructed"
    /\ ret' = validate_pl(type, payload)
    /\ UNCHANGED <<pc, epc, type, payload, fmt, r, sent, nchanges>>

\* execute(), lines 117-119 up to the wait: requests.post reads
\* self.payload, writes the request and waits for the answer.  Until the
\* answer is there the caller (another thread, or a hook passed through
\* **kwargs) can change the payload or call validate_pl.
ExecuteSend ==
    /\ pc = "constructed"
    /\ epc = "idle"
    /\ epc' = "waiting"
    /\ sent' = Posted(payload)
    /\ r' = NoResponse
    /\ UNCHANGED <<pc, type, payload, fmt, ret, nchanges>>

\* execute(), lines 118-142 from the answer on: requests.post returns resp,
\* and the result is decoded by self.type and self.fmt as they are now
ExecuteReceive(resp) ==
    /\ epc = "waiting"
    /\ epc' = "idle"
    /\ r' = resp
    /\ ret' = execute(type, fmt, resp)
    /\ UNCHANGED <<pc, type, payload, fmt, sent, nchanges>>

\* execute() when requests.post itself raises (no answer)
ExecuteNoResponse ==
    /\ epc = "waiting"
    /\ epc' = "idle"
    /\ r' = NoResponse
    /\ ret' = Raise("ConnectionError", "", {}, 0)
    /\ UNCHANGED <<pc, type, payload, fmt, sent, nchanges>>

\* the caller's payload[k] = v on the dict the Request holds
SetItem(k, v) ==
    /\ pc = "constructed"
    /\ nchanges < MaxChanges
    /\ payload' = [x \in DOMAIN payload \cup {k} |-> IF x = k THEN v ELSE payload[x]]
    /\ nchanges' = nchanges + 1
    /\ UNCHANGED <<pc, epc, type, fmt, ret, r, sent>>

\* the caller's del payload[k]
DelItem(k) ==
    /\ pc = "constructed"
    /\ nchanges < MaxChanges
    /\ k \in DOMAIN payload
    /\ payload' = [x \in DOMAIN payload \ {k} |-> payload[x]]
    /\ nchanges' = nchanges + 1
    /\ UNCHANGED <<pc, epc, type, fmt, ret, r, sent>>

(***************************************************************************)
(* Spec: construction on every payload over Keys, for every qtype.         *)
(***************************************************************************)
\* (the guards of the actions are repeated in front of the quantifiers so
\* that the inputs are enumerated only where the action is enabled)
Next ==
    \/ pc = "new" /\ \E K \in SUBSET PresenceKeys, c \in ContentValues \cup {Absent},
          f \in FormatValues \cup {Absent}, rf \in FormatValues \cup {Absent},
          qtype \in QTypes :
            Construct(MkPayload(K, c, f, rf), qtype)
    \/ Validate

Spec == Init /\ [][Next]_vars

(***************************************************************************)
(* The payloads of the two other specifications: for each rule of the      *)
(* table, the payload with exactly the rule's keys and its content value,  *)
(* under each choice of format and returnFormat.                           *)
(***************************************************************************)
FormatChoices == {<<"json", Absent>>, <<"csv", Absent>>, <<"xml", Absent>>,
                  <<Absent, "json">>, <<Absent, "csv">>,
                  <<"json", "csv">>, <<"csv", "json">>, <<Absent, Absent>>}

RulePayloads ==
    {MkPayload(({"token"} \cup extra(t)) \ {"format"}, req_content(t), fc[1], fc[2]) :
        t \in RuleTypes, fc \in FormatChoices}

(***************************************************************************)
(* SpecExec: one call of execute on a constructed Request, for every       *)
(* response of Responses.                                                  *)
(***************************************************************************)
InitExec ==
    \E pl \in RulePayloads, qtype \in QTypes :
        /\ RCRequest_init(pl, qtype).ret.kind = "return"
        /\ pc = "constructed"
        /\ epc = "idle"
        /\ type = qtype
        /\ payload = pl
        /\ fmt = RCRequest_init(pl, qtype).fmt
        /\ ret = RCRequest_init(pl, qtype).ret
        /\ r = NoResponse
        /\ sent = NotSent
        /\ nchanges = 0

NextExec ==
    \/ ~sent.posted /\ ExecuteSend
    \/ epc = "waiting" /\ \E resp \in Responses : ExecuteReceive(resp)
    \/ ExecuteNoResponse

SpecExec == InitExec /\ [][NextExec]_vars

(***************************************************************************)
(* SpecLife: a Request from construction on, with the caller changing the  *)
(* payload dict between calls.                                             *)
(***************************************************************************)
LifeResponses ==
    {Response(c, b, [h \in {"Content-Type"} |-> "text/plain"]) :
        c \in {200, 404}, b \in {<<>>, <<"1">>}}

ValuesOf(k) ==
    CASE k = "content"      -> ContentValues
      [] k = "format"       -> FormatValues
      [] k = "returnFormat" -> FormatValues
      [] OTHER              -> {"x"}

NextLife ==
    \/ pc = "new" /\ \E pl \in RulePayloads, qtype \in QTypes : Construct(pl, qtype)
    \/ Validate
    \/ ExecuteSend
    \/ epc = "waiting" /\ \E resp \in LifeResponses : ExecuteReceive(resp)
    \/ ExecuteNoResponse
    \/ \E k \in Keys : \E v \in ValuesOf(k) : SetItem(k, v)
    \/ \E k \in Keys : DelItem(k)

SpecLife == Init /\ [][NextLife]_vars

TypeOK ==
    /\ pc \in {"new", "constructed", "failed"}
    /\ epc \in {"idle", "waiting"}
    /\ epc = "waiting" => pc = "constructed" /\ sent.posted
    /\ type \in QTypes \cup {Unset}
    /\ DOMAIN payload \subseteq Keys
    /\ fmt \in FormatValues \cup {Unset}
    /\ ret.kind \in {"none", "return", "raise"}
    /\ nchanges \in 0..MaxChanges

(***************************************************************************)
(* Vocabulary of the properties.                                           *)
(***************************************************************************)
\* the payload has token, the type's content value and the type's extra keys
Satisfies(t, pl) ==
    /\ "token" \in DOMAIN pl
    /\ "content" \in DOMAIN pl
    /\ pl["content"] = req_content(t)
    /\ extra(t) \subseteq DOMAIN pl

\* pl with the key k put back, with the value the rule of t wants for it
WithKey(pl, k, t) ==
    [x \in DOMAIN pl \cup {k} |->
        IF x = k THEN (IF k = "content" THEN req_content(t) ELSE "x") ELSE pl[x]]

RaisedBy(exc) == ret.kind = "raise" /\ ret.exc = exc

ValidationPassed == ~RaisedBy("RCAPIError") /\ ~RaisedBy("UnboundLocalError")

NoFormatKey == "returnFormat" \notin DOMAIN payload /\ "format" \notin DOMAIN payload

\* the last execute has received a response
GotResponse == sent.posted /\ epc = "idle" /\ r.status_code # 0

(***************************************************************************)
(* C1 (Spec).  For a type of the rule table, validate_pl succeeds iff the  *)
(* payload has token, content equal to the type's value and every extra    *)
(* key of the type; and a payload that is valid but for one missing        *)
(* required key fails with an RCAPIError whose message names that key.     *)
(***************************************************************************)
C1_ValidateIffRule ==
    (pc # "new" /\ type \in RuleTypes) =>
        /\ ValidationPassed <=> Satisfies(type, payload)
        /\ \A k \in {"token", "content"} \cup extra(type) :
              (k \notin DOMAIN payload /\ Satisfies(type, WithKey(payload, k, type)))
                 => (RaisedBy("RCAPIError") /\ k \in ret.keys)

C1_Witness ==
    /\ pc = "failed"
    /\ type = "imp_record"
    /\ "data" \notin DOMAIN payload
    /\ Satisfies(type, WithKey(payload, "data", type))
    /\ ret.keys = {"data"}

(***************************************************************************)
(* C2 (Spec).  As claimed: a payload with neither returnFormat nor format  *)
(* makes construction fail with the configuration error (the KeyError of   *)
(* line 46), whatever the type.                                            *)
(***************************************************************************)
C2_Original ==
    (pc # "new" /\ NoFormatKey) => (pc = "failed" /\ RaisedBy("KeyError"))

(***************************************************************************)
(* C2 as amended (Spec).  A payload with neither returnFormat nor format   *)
(* always makes construction fail; the failure is the KeyError of line 46  *)
(* exactly when the type is empty or the payload passes validation, and    *)
(* otherwise it is the error validate_pl raised first.                     *)
(***************************************************************************)
C2_Amended ==
    (pc # "new" /\ NoFormatKey) =>
        /\ pc = "failed"
        /\ RaisedBy("KeyError") <=>
              (type = EmptyType \/ (type \in RuleTypes /\ Satisfies(type, payload)))
        /\ (type \in RuleTypes /\ ~Satisfies(type, payload)) => RaisedBy("RCAPIError")
        /\ type \in UnknownTypes => RaisedBy("UnboundLocalError")

C2_Witness ==
    /\ pc = "failed"
    /\ NoFormatKey
    /\ type = "exp_file"
    /\ Satisfies(type, payload)
    /\ RaisedBy("KeyError")

(***************************************************************************)
(* C3 (Spec).  As claimed: content present with a value other than the     *)
(* type's makes validation fail with the type's err_msg, whether or not    *)
(* other required keys are missing.                                        *)
(***************************************************************************)
WrongContent ==
    /\ pc # "new"
    /\ type \in RuleTypes
    /\ "content" \in DOMAIN payload
    /\ payload["content"] # req_content(type)

C3_Original ==
    WrongContent => ret = Raise("RCAPIError", err_msg(type), {}, 0)

(***************************************************************************)
(* C3 as amended (Spec).  Content present with a value other than the      *)
(* type's makes validation fail with the type's err_msg when every         *)
(* required key is present; when a required key is missing the error is    *)
(* the "Required keys" one that names the missing keys.                    *)
(***************************************************************************)
C3_Amended ==
    WrongContent =>
        LET required == {"token", "content"} \cup extra(type)
        IN  IF required \subseteq DOMAIN payload
            THEN ret = Raise("RCAPIError", err_msg(type), {}, 0)
            ELSE ret = Raise("RCAPIError", "Required keys: %s",
                             required \ DOMAIN payload, 0)

C3_Witness ==
    /\ pc = "failed"
    /\ type = "exp_record"
    /\ {"token", "content", "type", "format"} \subseteq DOMAIN payload
    /\ payload["content"] = "metadata"
    /\ ret.msg = "Exporting record but content is not record"

(***************************************************************************)
(* C4 (SpecExec).  On an exp_file Request execute raises an HTTPError      *)
(* that carries the status code for every status outside 200..299, and     *)
(* for a status in 200..299 returns the response bytes and headers.        *)
(***************************************************************************)
C4_FileExportStatus ==
    (GotResponse /\ type = "exp_file") =>
        IF r.status_code \in 200..299
        THEN ret = Return(content(r), r.headers)
        ELSE RaisedBy("HTTPError") /\ ret.status = r.status_code

(***************************************************************************)
(* C5 (SpecExec).  With format json and a body that json.loads rejects,    *)
(* execute returns {} for imp_file and raises ValueError for every other   *)
(* type but exp_file, the empty type included.                             *)
(***************************************************************************)
C5_BadJson ==
    (GotResponse /\ fmt = "json" /\ type # "exp_file" /\ ~loads(r.body, FALSE).ok) =>
        IF type = "imp_file"
        THEN ret = Return(PyDict, r.headers)
        ELSE RaisedBy("ValueError")

C5_Witness ==
    /\ GotResponse
    /\ type = "imp_file"
    /\ fmt = "json"
    /\ r.body = <<"[", "1">>
    /\ ret.content = PyDict

(***************************************************************************)
(* C6 (Spec).  Construction with the empty type never fails in validation: *)
(* it succeeds whenever the payload has a format key, whatever else the    *)
(* payload holds, and otherwise fails with the KeyError of line 46.        *)
(***************************************************************************)
C6_EmptyTypeSkipsValidation ==
    (pc # "new" /\ type = EmptyType) =>
        IF NoFormatKey THEN pc = "failed" /\ RaisedBy("KeyError")
                       ELSE pc = "constructed"

C6_Witness ==
    /\ pc = "constructed"
    /\ type = EmptyType
    /\ "token" \notin DOMAIN payload
    /\ "content" \notin DOMAIN payload

(***************************************************************************)
(* C7 (SpecExec).  With a format other than json and a type other than     *)
(* exp_file, execute returns the text of the body and the headers,         *)
(* whatever the body and the status.                                       *)
(***************************************************************************)
C7_RawText ==
    (GotResponse /\ fmt # "json" /\ type # "exp_file") =>
        ret = Return(text(r), r.headers)

C7_Witness ==
    /\ GotResponse
    /\ fmt = "xml"
    /\ type = "exp_record"
    /\ r.status_code = 503
    /\ r.body = <<"[", Ctrl>>
    /\ ret.content = PyStr(<<"[", Ctrl>>)

(***************************************************************************)
(* C8 (Spec).  As claimed: for a non-empty type that is not in the rule    *)
(* table validation does nothing, so construction can fail only in the     *)
(* format lookup of line 46.                                               *)
(***************************************************************************)
C8_Original ==
    (pc # "new" /\ type \in UnknownTypes) =>
        IF NoFormatKey THEN pc = "failed" /\ RaisedBy("KeyError")
                       ELSE pc = "constructed"

(***************************************************************************)
(* C8 as amended (Spec).  For a non-empty type that is not in the rule     *)
(* table validate_pl raises UnboundLocalError (extra is unbound at line    *)
(* 90) whatever the payload holds, so construction always fails.           *)
(***************************************************************************)
C8_Amended ==
    (pc # "new" /\ type \in UnknownTypes) =>
        (pc = "failed" /\ ret = Raise("UnboundLocalError", "extra", {}, 0))

C8_Witness ==
    /\ pc = "failed"
    /\ type \in UnknownTypes
    /\ DOMAIN payload = Keys
    /\ RaisedBy("UnboundLocalError")

(***************************************************************************)
(* C9 (SpecLife).  As claimed: whenever execute has sent a request for a   *)
(* Request with a non-empty type, the payload sent satisfies the type's    *)
(* rule, also after changes of the caller to the payload.                  *)
(***************************************************************************)
C9_Original ==
    (sent.posted /\ type # EmptyType) => Satisfies(type, sent.data)

(***************************************************************************)
(* C9 as amended (SpecLife).  Construction with a non-empty type succeeds  *)
(* only on a payload that satisfies the type's rule; validate_pl and       *)
(* execute never alter the payload; and execute sends the payload as it    *)
(* is at the call, without validating it again.                            *)
(***************************************************************************)
C9_Amended ==
    [][ /\ (pc = "new" /\ pc' = "constructed" /\ type' # EmptyType)
              => Satisfies(type', payload')
        /\ (pc = "constructed" /\ nchanges' = nchanges) => payload' = payload
        /\ (epc = "idle" /\ epc' = "waiting") => sent' = Posted(payload)
        /\ sent' # sent => (epc = "idle" /\ epc' = "waiting") ]_vars

C9_Witness ==
    /\ sent.posted
    /\ type \in RuleTypes
    /\ nchanges > 0
    /\ sent.data = payload
    /\ ~Satisfies(type, payload)

(***************************************************************************)
(* C10 (SpecLife).  The format of a Request is the payload's returnFormat  *)
(* if that key is present at construction, else its format; nothing        *)
(* changes it afterwards, and execute decodes by it: it returns the text   *)
(* of the body as it is exactly when that format is not json.              *)
(***************************************************************************)
C10_FormatFixed ==
    [][ /\ (pc = "new" /\ pc' = "constructed")
              => fmt' = IF "returnFormat" \in DOMAIN payload'
                        THEN payload'["returnFormat"] ELSE payload'["format"]
        /\ pc = "constructed" => fmt' = fmt
        /\ (epc = "waiting" /\ epc' = "idle" /\ r'.status_code # 0 /\ type # "exp_file")
              => (ret' = Return(text(r'), r'.headers) <=> fmt # "json") ]_vars

C10_Witness ==
    /\ pc = "constructed"
    /\ GotResponse
    /\ type = "metadata"
    /\ {"returnFormat", "format"} \subseteq DOMAIN payload
    /\ payload["returnFormat"] = "csv"
    /\ payload["format"] = "csv"
    /\ fmt = "json"
    /\ ret.content = PyInt(1)

====
